---- MODULE Spec2Model ----
(***************************************************************************)
(* Model of api_basebone.restful.manage.views.CommonManageViewSet: the     *)
(* generic manage end point that resolves an entity type per request,      *)
(* builds the scoped / filtered / ordered / tree-restricted result set and *)
(* runs create / update / destroy against the storage layer.               *)
(*                                                                         *)
(* One worker handles one request at a time (spec section 5).  A write     *)
(* handler is a sequence of steps, one per statement group of the source;  *)
(* pc is the handler's position.  db is the committed storage, txn the     *)
(* view of the storage inside the open transaction.atomic() block.         *)
(***************************************************************************)
EXTENDS Integers, Sequences, FiniteSets, TLC

\* ------------------------------------------------------------------ bounds
MaxId == 2          \* primary keys the storage can hand out: 1..MaxId

Ids == 1..MaxId
NoId == 0           \* Python None where an instance (or its id) is expected

\* ------------------------------------------------------------ principals
\* "plain": neither flag, "staff": is_staff only, "root": is_staff and
\* is_superuser.
Principals == {"plain", "staff", "root"}
NoUser == "nobody"

is_staff(user) == user \in {"staff", "root"}
is_superuser(user) == user = "root"

\* ------------------------------------------------------------- instances
\* A row of the entity type: the value of its principal-referencing field
\* and whether its tree-parent field holds the root (default) value.  Rows
\* are owned by the two principals the scope filter applies to.
Owners == {"plain", "staff"}
Rows == [owner : Owners, root : BOOLEAN]
Null == [owner |-> NoUser, root |-> FALSE]

\* The storage: rows by id, and whether the forward-relation record and the
\* reverse-relation record that request bodies refer to exist.
Stores == [inst : [Ids -> Rows \cup {Null}], fwd : BOOLEAN, rev : BOOLEAN]
EmptyStore == [inst |-> [i \in Ids |-> Null], fwd |-> FALSE, rev |-> FALSE]

\* ------------------------------------------------------- Entity registry
\* The route names the entity type by an application label and a model
\* slug.  "blog" is installed and registers "post"; "ghost" is not installed.
AppLabels == {"blog", "ghost"}
ModelSlugs == {"post", "nope"}
INSTALLED_APPS == {"apps.blog"}

\* get_app(app_label): the entry of settings.INSTALLED_APPS a label stands
\* for.
get_app(app_label) ==
    IF app_label = "blog" THEN "apps.blog" ELSE app_label

\* apps.all_models, a defaultdict: per label whether the key is present and
\* the slugs registered under it.  Every installed application has its key
\* from the time the applications were loaded.
Registered ==
    [app \in AppLabels |->
        IF get_app(app) \in INSTALLED_APPS
        THEN [present |-> TRUE, models |-> {"post"}]
        ELSE [present |-> FALSE, models |-> {}]]

\* The entity type the requests that resolve are served for (self.model).
AppLabel == "blog"
Model == "post"

\* Variant: the slug is looked up before the application is checked.
check_app_model_slug_first(registry, app_label, model_slug) ==
    LET looked == [registry EXCEPT ![app_label].present = TRUE]
    IN  IF model_slug \notin looked[app_label].models
        THEN [error |-> "MODEL_SLUG_IS_INVALID", all_models |-> looked]
        ELSE IF get_app(app_label) \notin INSTALLED_APPS
             THEN [error |-> "APP_LABEL_IS_INVALID", all_models |-> looked]
             ELSE [error |-> "", all_models |-> looked]

\* check_app_model: the application first, then the slug.  Reading
\* apps.all_models[label] creates the key when it is missing.
check_app_model(registry, app_label, model_slug) ==
    IF get_app(app_label) \notin INSTALLED_APPS
    THEN [error |-> "APP_LABEL_IS_INVALID", all_models |-> registry]
    ELSE LET looked == [registry EXCEPT ![app_label].present = TRUE]
         IN  IF model_slug \notin looked[app_label].models
             THEN [error |-> "MODEL_SLUG_IS_INVALID", all_models |-> looked]
             ELSE [error |-> "", all_models |-> looked]

\* ------------------------------------------------------ expansion paths
MaxPaths == 2       \* paths in one expand_fields list
MaxCalls == 2       \* get_queryset() calls within one request

\* A path is the sequence of its dot-separated segments; expand_fields is a
\* sequence of paths.  NoFields stands for None.
NoFields == << <<>> >>
Unreadable == << <<"!">> >>

\* The fields of the models that paths walk over.  A reverse relation has a
\* query name and the accessor the related rows are reached by; "hidden" has
\* no accessor.
Field(kind, related_model, accessor) ==
    [kind |-> kind, related_model |-> related_model, accessor |-> accessor]
NoField == Field("none", "", "")

\* model._meta.get_field(value); NoField when FieldDoesNotExist is raised.
get_field(model, value) ==
    CASE model = "post" /\ value = "title" -> Field("plain", "", "")
      [] model = "post" /\ value = "author" -> Field("forward", "user", "")
      [] model = "post" /\ value = "comment" -> Field("reverse", "comment", "comment_set")
      [] model = "post" /\ value = "tags" -> Field("reverse", "tag", "tags")
      [] model = "post" /\ value = "hidden" -> Field("reverse", "audit", "")
      [] model = "user" /\ value = "profile" -> Field("forward", "profile", "")
      [] model = "comment" /\ value = "author" -> Field("forward", "user", "")
      [] OTHER -> NoField

check_field_is_reverse(field) == field.kind = "reverse"
is_relation(field) == field.kind \in {"forward", "reverse"}

\* meta.get_relation_field_related_name(...)[0]: the accessor name of the
\* reverse relation, "" when there is none.
get_relation_field_related_name(field) == field.accessor

\* The paths a client can ask for, and the lists of them.
RawPaths ==
    { <<"title">>, <<"author">>, <<"author", "profile">>, <<"comment">>,
      <<"comment", "author">>, <<"tags">>, <<"hidden">>, <<"nope">> }
ExpandInputs == UNION {[1..n -> RawPaths] : n \in 0..MaxPaths}

\* ----------------------------------------------------------- AdminConfig
\* What the view reads off the entity type and its BSM admin class.
\*   has_user_field        meta.get_related_model_field(model, User)
\*   admin                 get_bsm_model_admin() returned a class
\*   auth_filter_field     "" unset, "owner" the referencing field,
\*                         "bogus" a name the model has no field for
\*   filter_by_login_user  the enable flag (default True)
\*   parent_field          "" unset, "parent" the tree-parent field,
\*                         "bogus" a name the model has no field for
\*   detail_expand_fields  the default expansion list of the detail view:
\*                         NoFields unset, Unreadable when reading or
\*                         copying it raises, else a list of paths
AdminConfig(user_field, admin, field_name, enabled, parent_field, detail) ==
    [has_user_field |-> user_field, admin |-> admin,
     auth_filter_field |-> field_name,
     filter_by_login_user |-> enabled,
     parent_field |-> parent_field,
     detail_expand_fields |-> detail]

\* The entity types a request is served for: one per way the scope filter
\* and the tree descriptor can come out.
Configs ==
    { AdminConfig(TRUE, FALSE, "", TRUE, "", NoFields),           \* no admin class
      AdminConfig(FALSE, TRUE, "owner", TRUE, "", NoFields),      \* no user field
      AdminConfig(TRUE, TRUE, "", TRUE, "", NoFields),            \* no scoping field
      AdminConfig(TRUE, TRUE, "owner", TRUE, "parent", NoFields), \* scoped, tree
      AdminConfig(TRUE, TRUE, "owner", FALSE, "", NoFields),      \* scoped, flag off
      AdminConfig(TRUE, TRUE, "bogus", TRUE, "bogus", Unreadable) } \* malformed

VARIABLES
    cfg,        \* the AdminConfig of the entity type (read at request time)
    db,         \* committed storage
    txn,        \* storage as seen inside the current write transaction
    pc,         \* position of the worker
    view,       \* the view object: action, request.user, pk, tree_data
    loc,        \* the handler's locals: instance, serializer
    sent,       \* post_save signals sent by the current request
    resp,       \* the response of the current request
    pre,        \* committed storage when the current request started
    trace,      \* phases the current request has completed, in order
    destroyed,  \* ids destroyed and not created again since
    all_models, \* the entity registry (apps.all_models)
    expand      \* self.expand_fields and what get_queryset() made of it

vars == <<cfg, db, txn, pc, view, loc, sent, resp, pre, trace, destroyed,
          all_models, expand>>

\* The view object of a request: the route's app and model, the action, the
\* principal, the looked-up pk, the tree descriptor and the fileformat
\* query parameter.
View(app, model_slug, action, user, pk, tree_data, fileformat) ==
    [app |-> app, model_slug |-> model_slug, action |-> action, user |-> user,
     pk |-> pk, tree_data |-> tree_data, fileformat |-> fileformat]
NoView == View("", "", "none", NoUser, NoId, FALSE, "absent")

\* expand: fields is self.expand_fields; source tells where the list came
\* from ("none", "request", "admin"); aliased whether the list is the very
\* object the admin class holds; calls counts the get_queryset() calls that
\* returned, first and prefetch are the paths handed to prefetch_related by
\* the first and by the latest of them.
NoExpand ==
    [fields |-> NoFields, source |-> "none", aliased |-> FALSE,
     calls |-> 0, first |-> <<>>, prefetch |-> <<>>]
NoLoc == [instance |-> NoId, serializer |-> NoId]
\* A response: the status, the rows of the body and, for an export, the
\* rendering of the file.
Response(status, data) == [status |-> status, data |-> data, render |-> ""]
NoResp == Response("none", <<>>)

Init ==
    /\ cfg \in Configs
    /\ db = EmptyStore
    /\ txn = EmptyStore
    /\ pc = "idle"
    /\ view = NoView
    /\ loc = NoLoc
    /\ sent = <<>>
    /\ resp = NoResp
    /\ pre = EmptyStore
    /\ trace = <<>>
    /\ destroyed = {}
    /\ all_models = Registered
    /\ expand = NoExpand

\* The rows a request body can describe.  Without a configured tree-parent
\* field the second field is one no body sets: it keeps its default.
BodyRows == {r \in Rows : cfg.parent_field = "parent" \/ r.root}

\* ------------------------------------------------------- request inputs
\* const.FILTER_CONDITIONS of the body: absent, an empty list, one condition
\* on the second field of the row (holds the default value / does not), or
\* a list that translates to no predicate at all.
FilterInputs == {"absent", "empty", "root", "child", "unparseable"}
\* const.ORDER_BY_FIELDS of the body: absent, [], a non-list, ["-id"].
OrderInputs == {"absent", "empty", "notlist", "desc"}
\* A relation payload of the body: none, a consistent one, an inconsistent one.
RelInputs == {"absent", "ok", "bad"}

\* A queryset is the sequence of the ids it selects, in order.
Reverse(rows) == [i \in 1..Len(rows) |-> rows[Len(rows) + 1 - i]]
RowSet(rows) == {rows[i] : i \in 1..Len(rows)}

\* self.model.objects.all(): every stored row, in primary-key order.
objects_all(s) == SelectSeq([i \in Ids |-> i], LAMBDA i : s.inst[i] # Null)

\* -------------------------------------------------------- QuerySetMixin
\* Variant: the elevated-privilege test looks at is_staff alone.
get_queryset_by_filter_user_staff(queryset, s, user) ==
    IF user # NoUser /\ is_staff(user)
    THEN queryset
    ELSE IF cfg.has_user_field /\ cfg.admin /\ cfg.auth_filter_field = "owner"
         THEN SelectSeq(queryset, LAMBDA i : s.inst[i].owner = user)
         ELSE queryset

get_queryset_by_filter_user(queryset, s, user) ==
    IF user # NoUser /\ is_staff(user) /\ is_superuser(user)
    THEN queryset
    ELSE IF cfg.has_user_field /\ cfg.admin
         THEN \* field_name unset: falls through; "bogus": filter() raises
              \* FieldError, swallowed by the except clause
              IF cfg.auth_filter_field = "owner"
              THEN SelectSeq(queryset, LAMBDA i : s.inst[i].owner = user)
              ELSE queryset
         ELSE queryset

\* build_filter_conditions: the predicate of a condition list, "" (None)
\* when the list yields no predicate.
build_filter_conditions(fc) ==
    IF fc \in {"root", "child"} THEN fc ELSE ""

get_queryset_by_filter_conditions(queryset, s, fc) ==
    IF queryset = <<>> THEN queryset
    ELSE IF fc \in {"absent", "empty"} THEN queryset
    ELSE LET cons == build_filter_conditions(fc) IN
         IF cons # ""
         THEN SelectSeq(queryset, LAMBDA i : s.inst[i].root = (cons = "root"))
         ELSE queryset

get_queryset_by_order_by(queryset, ob) ==
    IF ob = "desc" THEN Reverse(queryset) ELSE queryset

\* Variant: the root-level restriction is applied without a descriptor too.
get_queryset_by_with_tree_always(queryset, s, tree_data) ==
    SelectSeq(queryset, LAMBDA i : s.inst[i].root)

get_queryset_by_with_tree(queryset, s, tree_data) ==
    IF tree_data
    THEN SelectSeq(queryset, LAMBDA i : s.inst[i].root)
    ELSE queryset

\* methods = ['filter_user', 'filter_conditions', 'order_by', 'with_tree']
_get_queryset(queryset, s, user, fc, ob, tree_data) ==
    LET q1 == get_queryset_by_filter_user(queryset, s, user)
        q2 == get_queryset_by_filter_conditions(q1, s, fc)
        q3 == get_queryset_by_order_by(q2, ob)
    IN  get_queryset_by_with_tree(q3, s, tree_data)

\* ------------------------------------------------------ GenericViewMixin
\* self.tree_data: set only for GET and POST requests that ask for tree
\* data, when the admin class names a parent field.  With a name the model
\* has no field for, meta.tree_parent_field raises inside the try block and
\* the descriptor stays None.
_get_data_with_tree(action, data_with_tree) ==
    /\ action \in {"list", "retrieve", "export_file", "create", "set", "batch"}
    /\ data_with_tree
    /\ cfg.admin
    /\ cfg.parent_field = "parent"

\* Variant: the admin's list is taken as it is, not copied.
get_expand_fields_nocopy(action, raw) ==
    LET fields == IF action = "list"
                  THEN (IF raw = <<>> THEN NoFields ELSE raw)
                  ELSE IF action \in {"retrieve", "set"} THEN raw ELSE NoFields
    IN  IF /\ fields = NoFields
           /\ action = "retrieve"
           /\ cfg.admin
           /\ cfg.detail_expand_fields \notin {Unreadable, NoFields, <<>>}
        THEN [fields |-> cfg.detail_expand_fields, source |-> "admin",
              aliased |-> TRUE]
        ELSE [fields |-> fields, aliased |-> FALSE,
              source |-> IF fields = NoFields THEN "none" ELSE "request"]

\* get_expand_fields: lines 177-202.  raw is const.EXPAND_FIELDS of the
\* query string (list) or of the body (retrieve, set), NoFields when absent.
\* The detail view falls back on a deep copy of the admin's default list;
\* an exception while reading or copying it is swallowed.
get_expand_fields(action, raw) ==
    LET fields == IF action = "list"
                  THEN (IF raw = <<>> THEN NoFields ELSE raw)
                  ELSE IF action \in {"retrieve", "set"} THEN raw ELSE NoFields
    IN  IF /\ fields = NoFields
           /\ action = "retrieve"
           /\ cfg.admin
           /\ cfg.detail_expand_fields \notin {Unreadable, NoFields, <<>>}
        THEN [fields |-> cfg.detail_expand_fields, source |-> "admin",
              aliased |-> FALSE]
        ELSE [fields |-> fields, aliased |-> FALSE,
              source |-> IF fields = NoFields THEN "none" ELSE "request"]

\* The inner loop of translate_expand_fields over the segments of one path:
\* a reverse relation's segment is replaced by its accessor name when there
\* is one, and the walk goes on in the related model.
RECURSIVE walk_field_list(_, _)
walk_field_list(model, field_list) ==
    IF field_list = <<>>
    THEN [raised |-> FALSE, field_list |-> <<>>]
    ELSE LET value == Head(field_list)
             field == get_field(model, value)
         IN  IF field = NoField
             THEN [raised |-> TRUE, field_list |-> field_list]
             ELSE LET result == IF check_field_is_reverse(field)
                                THEN get_relation_field_related_name(field)
                                ELSE ""
                      name == IF result # "" THEN result ELSE value
                      rest == walk_field_list(
                                  IF is_relation(field)
                                  THEN field.related_model ELSE model,
                                  Tail(field_list))
                  IN  [raised |-> rest.raised,
                       field_list |-> <<name>> \o rest.field_list]

\* translate_expand_fields: lines 230-244.  The list is rewritten in place,
\* item by item: when get_field raises, the items before are rewritten and
\* the others are as they were.
RECURSIVE translate_expand_fields(_)
translate_expand_fields(expand_fields) ==
    IF expand_fields = <<>>
    THEN [raised |-> FALSE, expand_fields |-> <<>>]
    ELSE LET item == walk_field_list(Model, Head(expand_fields))
         IN  IF item.raised
             THEN [raised |-> TRUE, expand_fields |-> expand_fields]
             ELSE LET rest == translate_expand_fields(Tail(expand_fields))
                  IN  [raised |-> rest.raised,
                       expand_fields |-> <<item.field_list>> \o rest.expand_fields]

\* get_serializer_class: the flat serializer without expand_fields, else
\* the nested one, which mirrors the paths of self.expand_fields.
get_serializer_class(expand_fields) ==
    IF expand_fields \in {NoFields, <<>>}
    THEN {}
    ELSE UNION {{SubSeq(expand_fields[i], 1, n) : n \in 1..Len(expand_fields[i])} :
                    i \in 1..Len(expand_fields)}

\* get_queryset without expand_fields: the result set over all rows of the
\* model.
get_queryset(s, user, tree_data, fc, ob) ==
    _get_queryset(objects_all(s), s, user, fc, ob, tree_data)

\* GenericAPIView.get_object as the handlers use it: the row with the
\* looked-up pk inside get_queryset(), NoId when Http404 is raised.
get_object(q, pk) ==
    IF pk \in RowSet(q) THEN pk ELSE NoId

\* .filter(id=...).first()
filter_id_first(q, id) ==
    LET hit == SelectSeq(q, LAMBDA i : i = id)
    IN  IF hit = <<>> THEN NoId ELSE Head(hit)

\* ------------------------------------------------- relations (relations.py)
\* forward_relation_hand: the nested reference of the body is looked up, and
\* created when it does not exist, before the primary form validates.
forward_relation_hand(s, payload) ==
    IF payload = "ok" THEN [s EXCEPT !.fwd = TRUE] ELSE s

\* reverse_relation_hand: child records that reference back to the instance.
reverse_relation_hand(s, payload) ==
    IF payload = "ok" THEN [s EXCEPT !.rev = TRUE] ELSE s

\* ---------------------------------------------------------- the worker
Idle == pc = "idle"

\* Dispatch of a request to a handler: perform_authentication has set the
\* view's attributes.
Dispatch(action, user, pk, data_with_tree, raw, fileformat) ==
    /\ Idle
    /\ view' = View(AppLabel, Model, action, user, pk,
                    _get_data_with_tree(action, data_with_tree), fileformat)
    /\ LET got == get_expand_fields(action, raw)
       IN  expand' = [NoExpand EXCEPT !.fields = got.fields,
                                      !.source = got.source,
                                      !.aliased = got.aliased]
    /\ pre' = db
    /\ txn' = db
    /\ loc' = NoLoc
    /\ sent' = <<>>
    /\ trace' = <<>>

\* A request that asks for no expansion and carries no fileformat.
Enter(action, user, pk, data_with_tree) ==
    Dispatch(action, user, pk, data_with_tree, NoFields, "absent")

\* perform_authentication raises out of check_app_model: no handler runs.
RefuseRequest(app, model_slug, action, user, error) ==
    /\ Idle
    /\ view' = View(app, model_slug, action, user, NoId, FALSE, "absent")
    /\ expand' = NoExpand
    /\ pre' = db
    /\ txn' = db
    /\ loc' = NoLoc
    /\ sent' = <<>>
    /\ trace' = <<>>
    /\ pc' = "done"
    /\ resp' = Response(error, <<>>)
    /\ UNCHANGED <<cfg, db, destroyed>>

\* A read handler answers in one step.
Answer(status, data) ==
    /\ pc' = "done"
    /\ resp' = Response(status, data)

\* success_response(serializer.data) of a single instance.
serializer_data(instance) ==
    IF instance = NoId THEN <<>> ELSE <<instance>>

\* retrieve: lines 298-302
retrieve(user, pk, data_with_tree, fc, ob) ==
    /\ Enter("retrieve", user, pk, data_with_tree)
    /\ LET q == get_queryset(db, user,
                    _get_data_with_tree("retrieve", data_with_tree), fc, ob)
           instance == get_object(q, pk)
       IN  IF instance = NoId
           THEN Answer("NotFound", <<>>)
           ELSE Answer("ok", serializer_data(instance))
    /\ UNCHANGED <<cfg, db, destroyed>>

\* list (GET) and set (POST .../list/): the whole result set.
list_rows(action, user, data_with_tree, fc, ob) ==
    /\ Enter(action, user, NoId, data_with_tree)
    /\ LET q == get_queryset(db, user,
                    _get_data_with_tree(action, data_with_tree), fc, ob)
       IN  Answer("ok", q)
    /\ UNCHANGED <<cfg, db, destroyed>>

list(user, data_with_tree, fc, ob) ==
    list_rows("list", user, data_with_tree, fc, ob)

set(user, data_with_tree, fc, ob) ==
    list_rows("set", user, data_with_tree, fc, ob)

\* ----- export_file: lines 413-429
\* The fileformat query parameter: absent, the two formats, another word.
FileFormats == {"absent", "csv", "excel", "xml"}

\* Variant: a word outside the valid list is kept.
file_type_nofallback(fileformat) ==
    IF fileformat = "absent" THEN "csv" ELSE fileformat

\* file_type = query_params.get('fileformat', 'csv'), 'csv' unless it is in
\* the valid list.
file_type(fileformat) ==
    LET given == IF fileformat = "absent" THEN "csv" ELSE fileformat
    IN  IF given \in {"csv", "excel"} THEN given ELSE "csv"

\* renderers.csv_render(model) and renderers.ExcelResponse(model): the
\* renderer is handed the model class and renders the model's rows.
csv_render(s) == objects_all(s)
ExcelResponse(s) == objects_all(s)

export_file(user, data_with_tree, fileformat) ==
    /\ Dispatch("export_file", user, NoId, data_with_tree, NoFields, fileformat)
    /\ pc' = "done"
    /\ resp' = IF file_type(fileformat) = "csv"
               THEN [Response("ok", csv_render(db)) EXCEPT !.render = "csv"]
               ELSE [Response("ok", ExcelResponse(db)) EXCEPT !.render = "excel"]
    /\ UNCHANGED <<cfg, db, destroyed>>

\* ----- batch: lines 395-411
\* The action name and the id list of the body: a registered action over
\* some ids, an unregistered action, an empty id list.
BatchInputs == {"ok", "unknown", "empty"}

\* BatchActionForm.is_valid and .handle: the form rejects an unregistered
\* action and an empty id list; the handler may fail.  What a handler does
\* to the rows is the handler's business and is not part of the view.
batch(user, data_with_tree, body, fails) ==
    /\ Enter("batch", user, NoId, data_with_tree)
    /\ IF body = "unknown" THEN Answer("UnknownBatchAction", <<>>)
       ELSE IF body = "empty" THEN Answer("ValidationError", <<>>)
       ELSE IF fails THEN Answer("BatchActionError", <<>>)
       ELSE Answer("ok", <<>>)
    /\ UNCHANGED <<cfg, db, destroyed>>

\* Variant: the delete is never issued.
perform_destroy_noop(s, instance) == s

\* perform_destroy: instance.delete()
perform_destroy(s, instance) ==
    [s EXCEPT !.inst[instance] = Null]

\* destroy: lines 376-380.  No transaction block: the delete is committed
\* as it is made.
destroy(user, pk, fc, ob) ==
    /\ Idle
    /\ view' = View(AppLabel, Model, "destroy", user, pk,
                    _get_data_with_tree("destroy", FALSE), "absent")
    /\ expand' = NoExpand
    /\ pre' = db
    /\ loc' = NoLoc
    /\ sent' = <<>>
    /\ trace' = <<>>
    /\ LET q == get_queryset(db, user, FALSE, fc, ob)
           instance == get_object(q, pk)
       IN  IF instance = NoId
           THEN Answer("NotFound", <<>>) /\ UNCHANGED <<db, destroyed>>
           ELSE /\ db' = perform_destroy(db, instance)
                /\ destroyed' = destroyed \cup {instance}
                /\ Answer("ok", <<>>)
    /\ txn' = db'
    /\ UNCHANGED cfg

\* ------------------------------------------------------ write handlers
\* A statement of the write handler completed: the handler moves on.
Step(next, phase, newtxn, newloc) ==
    /\ pc' = next
    /\ trace' = Append(trace, phase)
    /\ txn' = newtxn
    /\ loc' = newloc
    /\ UNCHANGED <<cfg, all_models, expand, db, view, sent, resp, pre, destroyed>>

\* Variant: no transaction around the write, what was written stays.
Abort_NoRollback(status) ==
    /\ pc' = "done"
    /\ resp' = Response(status, <<>>)
    /\ txn' = txn
    /\ db' = txn
    /\ UNCHANGED <<cfg, all_models, expand, view, loc, sent, pre, trace, destroyed>>

\* An exception leaves the "with transaction.atomic()" block of the write:
\* the transaction is rolled back and the request fails.
Abort(status) ==
    /\ pc' = "done"
    /\ resp' = Response(status, <<>>)
    /\ txn' = db
    /\ UNCHANGED <<cfg, all_models, expand, db, view, loc, sent, pre, trace, destroyed>>

\* forward_relation_hand(self.model, request.data)
ForwardRelationResolution(here, next) ==
    /\ pc = here
    /\ \E payload \in RelInputs :
         IF payload = "bad"
         THEN Abort("RelationResolutionError")
         ELSE Step(next, "forward", forward_relation_hand(txn, payload), loc)

\* serializer = form(data=request.data); serializer.is_valid(raise_exception=True)
Validate(here, next) ==
    /\ pc = here
    /\ \E valid \in BOOLEAN :
         IF valid
         THEN Step(next, "validate", txn, loc)
         ELSE Abort("ValidationError")

\* reverse_relation_hand(self.model, request.data, instance, ...).  With no
\* reverse payload in the body nothing is touched; with a payload and no
\* instance the call may raise or go through.
ReverseRelationResolution(here, next) ==
    /\ pc = here
    /\ \E payload \in RelInputs, raises \in BOOLEAN :
         IF payload = "bad" \/ (payload = "ok" /\ loc.instance = NoId /\ raises)
         THEN Abort("RelationResolutionError")
         ELSE Step(next, "reverse", reverse_relation_hand(txn, payload), loc)

\* Leaving the first "with transaction.atomic()" block normally.
Commit(here, next) ==
    /\ pc = here
    /\ pc' = next
    /\ db' = txn
    /\ destroyed' = {i \in destroyed : txn.inst[i] = Null}
    /\ trace' = Append(trace, "commit")
    /\ UNCHANGED <<cfg, all_models, expand, txn, view, loc, sent, resp, pre>>

\* Variant: the signal is sent inside the write transaction, so that a
\* receiver's exception undoes the write.
Notify_Rollback(here, next, create) ==
    /\ pc = here
    /\ \E raises \in BOOLEAN :
         /\ sent' = Append(sent, [instance |-> loc.instance,
                                  create |-> create, raised |-> raises])
         /\ IF raises
            THEN /\ pc' = "done"
                 /\ resp' = Response("SignalError", <<>>)
                 /\ trace' = trace
                 /\ db' = pre
            ELSE /\ pc' = next
                 /\ resp' = resp
                 /\ trace' = Append(trace, "notify")
                 /\ db' = db
    /\ UNCHANGED <<cfg, all_models, expand, txn, view, loc, pre, destroyed>>

\* The second block: post_save.send(sender=self.model, instance=instance,
\* create=...).  Signal.send lets a receiver's exception through.
Notify(here, next, create) ==
    /\ pc = here
    /\ \E raises \in BOOLEAN :
         /\ sent' = Append(sent, [instance |-> loc.instance,
                                  create |-> create, raised |-> raises])
         /\ IF raises
            THEN /\ pc' = "done"
                 /\ resp' = Response("SignalError", <<>>)
                 /\ trace' = trace
            ELSE /\ pc' = next
                 /\ resp' = resp
                 /\ trace' = Append(trace, "notify")
    /\ UNCHANGED <<cfg, all_models, expand, db, txn, view, loc, pre, destroyed>>

\* return success_response(serializer.data)
Respond(here) ==
    /\ pc = here
    /\ pc' = "done"
    /\ resp' = Response("ok", serializer_data(loc.serializer))
    /\ UNCHANGED <<cfg, all_models, expand, db, txn, view, loc, sent, pre, trace, destroyed>>

\* ----- create: lines 316-341
CreateEnter(user, data_with_tree) ==
    /\ Enter("create", user, NoId, data_with_tree)
    /\ pc' = "c_forward"
    /\ resp' = NoResp
    /\ UNCHANGED <<cfg, db, destroyed>>

\* Variant: the form is never validated.
CreateForward_SkipValidate == ForwardRelationResolution("c_forward", "c_persist")

CreateForward == ForwardRelationResolution("c_forward", "c_validate")

CreateValidate == Validate("c_validate", "c_persist")

\* instance = self.perform_create(serializer)
CreatePersist ==
    /\ pc = "c_persist"
    /\ \/ \E id \in Ids, row \in BodyRows :
            /\ txn.inst[id] = Null
            /\ Step("c_requery", "persist", [txn EXCEPT !.inst[id] = row],
                    [loc EXCEPT !.instance = id])
       \/ Abort("DatabaseError")

\* instance = self.get_queryset().filter(id=instance.id).first()
\* serializer = self.get_serializer(instance)
CreateRequery ==
    /\ pc = "c_requery"
    /\ \E fc \in FilterInputs, ob \in OrderInputs :
         LET q == get_queryset(txn, view.user, view.tree_data, fc, ob)
             instance == filter_id_first(q, loc.instance)
         IN  Step("c_reverse", "requery", txn,
                  [instance |-> instance, serializer |-> instance])

\* Variant: the signal is sent from inside the first block, before it commits.
CreateReverse_NotifyInside == ReverseRelationResolution("c_reverse", "c_notify")

CreateReverse == ReverseRelationResolution("c_reverse", "c_commit")

CreateCommit == Commit("c_commit", "c_notify")

CreateNotify == Notify("c_notify", "c_respond", TRUE)

CreateRespond == Respond("c_respond")

create ==
    \/ CreateForward
    \/ CreateValidate
    \/ CreatePersist
    \/ CreateRequery
    \/ CreateReverse
    \/ CreateCommit
    \/ CreateNotify
    \/ CreateRespond

\* ----- update and partial_update: lines 343-374
UpdateEnter(user, pk, partial) ==
    /\ Enter(IF partial THEN "partial_update" ELSE "update", user, pk, FALSE)
    /\ pc' = "u_forward"
    /\ resp' = NoResp
    /\ UNCHANGED <<cfg, db, destroyed>>

UpdateForward == ForwardRelationResolution("u_forward", "u_lookup")

\* Variant: the instance is looked up among all rows of the model.
UpdateLookup_Unscoped ==
    /\ pc = "u_lookup"
    /\ LET instance == get_object(objects_all(txn), view.pk)
       IN  IF instance = NoId THEN Abort("NotFound")
           ELSE Step("u_validate", "lookup", txn,
                     [loc EXCEPT !.instance = instance])

\* instance = self.get_object()
UpdateLookup ==
    /\ pc = "u_lookup"
    /\ \E fc \in FilterInputs, ob \in OrderInputs :
         LET q == get_queryset(txn, view.user, view.tree_data, fc, ob)
             instance == get_object(q, view.pk)
         IN  IF instance = NoId THEN Abort("NotFound")
             ELSE Step("u_validate", "lookup", txn,
                       [loc EXCEPT !.instance = instance])

UpdateValidate == Validate("u_validate", "u_persist")

\* Variant: the reverse relations of an update are never resolved.
UpdatePersist_SkipReverse ==
    /\ pc = "u_persist"
    /\ \/ \E row \in BodyRows :
            Step("u_commit", "persist",
                 [txn EXCEPT !.inst[loc.instance] = row],
                 [loc EXCEPT !.serializer = loc.instance])
       \/ Abort("DatabaseError")

\* instance = self.perform_update(serializer)
\* serializer = self.get_serializer(instance)
\* (emptying instance._prefetched_objects_cache touches no stored record)
UpdatePersist ==
    /\ pc = "u_persist"
    /\ \/ \E row \in BodyRows :
            Step("u_reverse", "persist",
                 [txn EXCEPT !.inst[loc.instance] = row],
                 [loc EXCEPT !.serializer = loc.instance])
       \/ Abort("DatabaseError")

UpdateReverse == ReverseRelationResolution("u_reverse", "u_commit")

UpdateCommit == Commit("u_commit", "u_notify")

UpdateNotify == Notify("u_notify", "u_respond", FALSE)

UpdateRespond == Respond("u_respond")

update ==
    \/ UpdateForward
    \/ UpdateLookup
    \/ UpdateValidate
    \/ UpdatePersist
    \/ UpdateReverse
    \/ UpdateCommit
    \/ UpdateNotify
    \/ UpdateRespond

\* The response has gone out: the view object and everything else that
\* belongs to the request is discarded, the worker takes the next request.
Finish ==
    /\ pc = "done"
    /\ pc' = "idle"
    /\ view' = NoView
    /\ loc' = NoLoc
    /\ resp' = NoResp
    /\ sent' = <<>>
    /\ trace' = <<>>
    /\ pre' = db
    /\ txn' = db
    /\ expand' = NoExpand
    /\ UNCHANGED <<cfg, db, destroyed, all_models>>

\* ---------------------------------------------------------------- Next
\* A request arrives at the idle worker.
Handle ==
    /\ pc = "idle"
    /\ \/ \E user \in Principals, pk \in Ids, data_with_tree \in BOOLEAN,
             fc \in FilterInputs, ob \in OrderInputs :
               retrieve(user, pk, data_with_tree, fc, ob)
       \/ \E user \in Principals, data_with_tree \in BOOLEAN,
             fc \in FilterInputs, ob \in OrderInputs :
               list(user, data_with_tree, fc, ob)
       \/ \E user \in Principals, data_with_tree \in BOOLEAN,
             fc \in FilterInputs, ob \in OrderInputs :
               set(user, data_with_tree, fc, ob)
       \/ \E user \in Principals, pk \in Ids,
             fc \in FilterInputs, ob \in OrderInputs :
               destroy(user, pk, fc, ob)
       \/ \E user \in Principals, data_with_tree \in BOOLEAN :
               CreateEnter(user, data_with_tree)
       \/ \E user \in Principals, pk \in Ids, partial \in BOOLEAN :
               UpdateEnter(user, pk, partial)
       \/ \E user \in Principals, data_with_tree \in BOOLEAN,
             fileformat \in FileFormats :
               export_file(user, data_with_tree, fileformat)
       \/ \E user \in Principals, data_with_tree \in BOOLEAN,
             body \in BatchInputs, fails \in BOOLEAN :
               batch(user, data_with_tree, body, fails)

\* The actions of the view set.
Actions ==
    {"retrieve", "list", "set", "destroy", "create", "update",
     "partial_update", "export_file", "batch"}

\* A request arrives at the idle worker: the route's app and model are
\* resolved before anything else (perform_authentication), and the request
\* is refused when they do not resolve.
Request ==
    /\ pc = "idle"
    /\ \E app \in AppLabels, model_slug \in ModelSlugs :
         LET found == check_app_model(all_models, app, model_slug)
         IN  /\ all_models' = found.all_models
             /\ IF found.error # ""
                THEN \E action \in Actions, user \in Principals :
                        RefuseRequest(app, model_slug, action, user, found.error)
                ELSE app = AppLabel /\ model_slug = Model /\ Handle

\* ------------------------------------------- requests with expand_fields
\* The read handlers when the request, or the admin's default, names
\* expansion paths.  The storage holds one row; the entity type has an
\* admin class whose default list for the detail view is one of these.
ExpandConfigs ==
    { AdminConfig(TRUE, TRUE, "owner", TRUE, "", detail) :
        detail \in {NoFields, Unreadable, <<>>, << <<"author", "profile">> >>,
                    << <<"comment">> >>, << <<"tags">>, <<"comment", "author">> >>,
                    << <<"nope">> >>} }

SeededStore == [EmptyStore EXCEPT !.inst[1] = [owner |-> "plain", root |-> TRUE]]

InitExpand ==
    /\ cfg \in ExpandConfigs
    /\ db = SeededStore
    /\ txn = SeededStore
    /\ pc = "idle"
    /\ view = NoView
    /\ loc = NoLoc
    /\ sent = <<>>
    /\ resp = NoResp
    /\ pre = SeededStore
    /\ trace = <<>>
    /\ destroyed = {}
    /\ all_models = Registered
    /\ expand = NoExpand

\* perform_authentication of a read request.
ExpandEnter(action, user, pk, raw) ==
    /\ Dispatch(action, user, pk, FALSE, raw, "absent")
    /\ pc' = "x_query"
    /\ resp' = NoResp
    /\ UNCHANGED <<cfg, db, destroyed, all_models>>

\* get_queryset: lines 246-257.  The handler calls it once; whatever else
\* renders the view (the browsable API's filter form) calls it again.  The
\* paths are translated in place, so a list that is the admin's own object
\* is rewritten with them.
ExpandQuery ==
    /\ pc = "x_query"
    /\ expand.calls < MaxCalls
    /\ IF expand.fields \in {NoFields, <<>>}
       THEN /\ expand' = [expand EXCEPT !.calls = @ + 1, !.prefetch = <<>>]
            /\ UNCHANGED <<cfg, pc, resp>>
       ELSE LET translated == translate_expand_fields(expand.fields)
                field_list == translated.expand_fields
            IN  /\ cfg' = IF expand.aliased
                          THEN [cfg EXCEPT !.detail_expand_fields = field_list]
                          ELSE cfg
                /\ IF translated.raised
                   THEN /\ expand' = [expand EXCEPT !.fields = field_list]
                        /\ pc' = "done"
                        /\ resp' = Response("FieldDoesNotExist", <<>>)
                   ELSE /\ expand' = [expand EXCEPT
                                !.fields = field_list,
                                !.calls = @ + 1,
                                !.prefetch = field_list,
                                !.first = IF expand.calls = 0
                                          THEN field_list ELSE @]
                        /\ UNCHANGED <<pc, resp>>
    /\ UNCHANGED <<db, txn, view, loc, sent, pre, trace, destroyed, all_models>>

\* The handler answers from the result set.
ExpandRespond ==
    /\ pc = "x_query"
    /\ expand.calls >= 1
    /\ LET q == get_queryset(db, view.user, view.tree_data, "absent", "absent")
       IN  IF view.action = "retrieve"
           THEN IF get_object(q, view.pk) = NoId
                THEN Answer("NotFound", <<>>)
                ELSE Answer("ok", serializer_data(get_object(q, view.pk)))
           ELSE Answer("ok", q)
    /\ UNCHANGED <<cfg, db, txn, view, loc, sent, pre, trace, destroyed,
                   all_models, expand>>

\* A read request arrives at the idle worker.
ExpandRequest ==
    /\ pc = "idle"
    /\ \E user \in Principals, raw \in ExpandInputs \cup {NoFields} :
         \/ \E pk \in Ids : ExpandEnter("retrieve", user, pk, raw)
         \/ ExpandEnter("list", user, NoId, raw)
         \/ ExpandEnter("set", user, NoId, raw)

NextExpand ==
    \/ ExpandRequest
    \/ ExpandQuery
    \/ ExpandRespond
    \/ Finish

ExpandSpec == InitExpand /\ [][NextExpand]_vars

Next ==
    \/ Request
    \/ create
    \/ update
    \/ Finish

Spec == Init /\ [][Next]_vars

\* ================================================================ claims
Has(seq, x) == \E i \in 1..Len(seq) : seq[i] = x
IsPrefix(a, b) == Len(a) <= Len(b) /\ \A i \in 1..Len(a) : a[i] = b[i]

\* The request got past check_app_model.
Resolved == view.app = AppLabel /\ view.model_slug = Model
WriteActions == {"create", "update", "partial_update"}
UpdateActions == {"update", "partial_update"}
ReadActions == {"list", "set", "retrieve"}
\* The failures a write handler can meet inside its first transaction block.
WriteFailures ==
    {"RelationResolutionError", "NotFound", "ValidationError", "DatabaseError"}

\* Principals with administrator privilege, by the table of principals.
ElevatedPrincipals == {"root"}
\* The entity type has a principal-referencing field and its AdminConfig
\* names that field as the scoping field.
ScopingConfigured ==
    cfg.has_user_field /\ cfg.admin /\ cfg.auth_filter_field = "owner"
\* The row pk exists in s and the principal may see it.
Visible(s, user, pk) ==
    /\ pk \in Ids
    /\ s.inst[pk] # Null
    /\ \/ user \in ElevatedPrincipals
       \/ ~ScopingConfigured
       \/ s.inst[pk].owner = user

\* C1: write atomicity.  When a create or update fails in any phase of its
\* write transaction (forward-relation resolution, lookup, validation,
\* persist, reverse-relation resolution), the committed storage equals the
\* storage before the request; and nothing the handler writes is visible in
\* the committed storage before the transaction commits.
C1_WriteAtomicity ==
    (view.action \in WriteActions
        /\ (resp.status \in WriteFailures \/ ~Has(trace, "commit")))
    => db = pre

\* A create failed in reverse-relation resolution, after its row was
\* persisted and requeried.
C1_Witness ==
    /\ pc = "done"
    /\ view.action = "create"
    /\ resp.status = "RelationResolutionError"
    /\ Has(trace, "persist")
    /\ Has(trace, "requery")

\* C2: the post-save signal of a create or update is sent only after the
\* write transaction of the request has committed (the committed storage is
\* then what the transaction wrote), and a request whose write transaction
\* failed has sent no signal.
C2_NotifyAfterCommit ==
    /\ sent # <<>> => (Has(trace, "commit") /\ db = txn)
    /\ resp.status \in WriteFailures => sent = <<>>

C2_Witness ==
    /\ pc = "done"
    /\ view.action = "create"
    /\ resp.status = "ok"
    /\ sent # <<>>
    /\ db # pre

\* C3: when a receiver of the post-save signal raises, the write stays: the
\* committed storage is still what the first transaction wrote, and for a
\* create the new row is in it.
C3_NotifyFailureKeepsWrite ==
    (pc = "done" /\ resp.status = "SignalError")
    => /\ Has(trace, "commit")
       /\ db = txn
       /\ view.action = "create"
            => \E i \in Ids : pre.inst[i] = Null /\ db.inst[i] # Null

\* The signal of a create raised after the row and both relation records
\* were committed.
C3_Witness ==
    /\ pc = "done"
    /\ resp.status = "SignalError"
    /\ view.action = "create"
    /\ db.fwd /\ ~pre.fwd
    /\ db.rev /\ ~pre.rev

\* C4: a failure while sending the post-save signal does not fail the
\* request: the client still receives the success response.
C4_NotifyFailureStillSucceeds ==
    (pc = "done" /\ \E i \in 1..Len(sent) : sent[i].raised)
    => resp.status = "ok"

C6_LookupMissIsNotFound ==
    (pc = "done" /\ view.action \in UpdateActions \cup {"destroy"}
        /\ Resolved /\ ~Visible(pre, view.user, view.pk))
    => (resp.status = "NotFound" /\ db = pre)

\* C6 amended: such a request never succeeds and leaves the storage
\* unchanged; its outcome is NotFound whenever the lookup is reached, which
\* is always for destroy and, for update and partial update, whenever
\* forward-relation resolution of the body (run before the lookup) did not
\* fail; otherwise it is that step's RelationResolutionError, raised before
\* any row is looked at, hence the same for a missing and a hidden row.
C6_LookupMissNeverSucceeds ==
    (pc = "done" /\ view.action \in UpdateActions \cup {"destroy"}
        /\ Resolved /\ ~Visible(pre, view.user, view.pk))
    => /\ db = pre
       /\ resp.status \in {"NotFound", "RelationResolutionError"}
       /\ (view.action = "destroy" \/ Has(trace, "forward"))
            => resp.status = "NotFound"
       /\ resp.status = "RelationResolutionError" => trace = <<>>

\* A partial update of a stored row owned by another principal was refused
\* after forward-relation resolution had gone through.
C6_Witness ==
    /\ pc = "done"
    /\ view.action = "partial_update"
    /\ Resolved
    /\ pre.inst[view.pk] # Null
    /\ ~Visible(pre, view.user, view.pk)
    /\ resp.status = "NotFound"
    /\ Has(trace, "forward")

CreateOrder ==
    <<"forward", "validate", "persist", "requery", "reverse", "commit",
      "notify">>

\* C7: the phases of a create happen in the order forward-relation
\* resolution, validation, persist, requery, reverse-relation resolution,
\* commit, notification: at any moment the phases completed so far are an
\* initial part of that list, and a successful create has completed all of
\* them, each once.
C7_CreatePhaseOrder ==
    view.action = "create"
    => /\ IsPrefix(trace, CreateOrder)
       /\ (pc = "done" /\ resp.status = "ok") => trace = CreateOrder

C7_Witness ==
    /\ pc = "done"
    /\ view.action = "create"
    /\ resp.status = "ok"
    /\ loc.instance # NoId
    /\ db.inst[loc.instance] # Null

UpdateOrder ==
    <<"forward", "lookup", "validate", "persist", "reverse", "commit",
      "notify">>

C9_RequeryMissIsFatal ==
    (view.action = "create" /\ Has(trace, "requery") /\ loc.instance = NoId)
    => /\ ~Has(trace, "reverse")
       /\ ~Has(trace, "commit")
       /\ sent = <<>>
       /\ pc = "done" => (resp.status = "PostPersistRequeryMiss" /\ db = pre)

\* C10: once a destroy of an id has succeeded the row is gone, every detail
\* fetch of that id answers NotFound until a create stores a row under the
\* id again, and a destroy sends no signal.
C10_DestroyThenFetch ==
    /\ \A i \in destroyed : db.inst[i] = Null
    /\ (pc = "done" /\ view.action = "retrieve" /\ view.pk \in destroyed)
       => resp.status = "NotFound"
    /\ (pc = "done" /\ view.action = "destroy")
       => /\ sent = <<>>
          /\ resp.status = "ok" => view.pk \in destroyed

\* A detail fetch of a destroyed id was refused while another row was stored.
C10_Witness ==
    /\ pc = "done"
    /\ view.action = "retrieve"
    /\ view.pk \in destroyed
    /\ resp.status = "NotFound"
    /\ \E i \in Ids : db.inst[i] # Null

\* The segments that occur in a list of paths.
Segments(paths) == UNION {RowSet(paths[i]) : i \in 1..Len(paths)}
\* The query names of reverse relations that have no accessor.
NoAccessor ==
    {value \in UNION {RowSet(path) : path \in RawPaths} :
        /\ check_field_is_reverse(get_field(Model, value))
        /\ get_relation_field_related_name(get_field(Model, value)) = ""}

\* C11: expansion resolution is idempotent.  Once get_queryset() has
\* resolved the request's paths, a further get_queryset() call in the same
\* request does not fail and hands the same paths to prefetch_related, and
\* the serializer built from self.expand_fields has the same shape.
C11_ReResolutionIsIdempotent ==
    expand.calls >= 1
    => /\ resp.status # "FieldDoesNotExist"
       /\ expand.prefetch = expand.first
       /\ get_serializer_class(expand.fields) = get_serializer_class(expand.first)

\* C12: a reverse-relation segment without an accessor name makes the
\* resolution fail with UnresolvableExpansionSegment, and the unrewritten
\* segment is never among the paths handed to prefetch_related.
C12_UnresolvableSegmentFails ==
    /\ Segments(expand.prefetch) \cap NoAccessor = {}
    /\ (pc = "done" /\ expand.fields # NoFields
           /\ Segments(expand.fields) \cap NoAccessor # {})
       => resp.status = "UnresolvableExpansionSegment"

\* C13: export format selection is total.  An export never ends in an
\* error; fileformat "excel" selects the spreadsheet rendering and every
\* other value, an absent parameter and an unknown word included, selects
\* the csv rendering.
C13_ExportFormatTotal ==
    (pc = "done" /\ view.action = "export_file" /\ Resolved)
    => /\ resp.status = "ok"
       /\ resp.render = (IF view.fileformat = "excel" THEN "excel" ELSE "csv")

\* An export with an unknown fileformat was rendered as csv.
C13_Witness ==
    /\ pc = "done"
    /\ view.action = "export_file"
    /\ view.fileformat = "xml"
    /\ resp.status = "ok"
    /\ resp.render = "csv"
    /\ resp.data # <<>>

\* C14: the export is scope-filtered.  For a principal without
\* administrator privilege and an entity type with a scoping field
\* configured, every row of the export is owned by that principal.
C14_ExportIsScoped ==
    (pc = "done" /\ view.action = "export_file" /\ ScopingConfigured
        /\ view.user \notin ElevatedPrincipals)
    => \A i \in RowSet(resp.data) : db.inst[i].owner = view.user

\* C15: entity resolution comes first.  An app label outside the installed
\* applications ends with APP_LABEL_IS_INVALID whatever the slug is, a slug
\* that is not registered under an installed label with
\* MODEL_SLUG_IS_INVALID; a refused request has run no expansion, tree,
\* query or mutation step, and the registry is what it was.
C15_EntityResolutionFirst ==
    /\ all_models = Registered
    /\ (pc = "done" /\ get_app(view.app) \notin INSTALLED_APPS)
       => resp.status = "APP_LABEL_IS_INVALID"
    /\ (pc = "done" /\ get_app(view.app) \in INSTALLED_APPS
           /\ view.model_slug \notin Registered[view.app].models)
       => resp.status = "MODEL_SLUG_IS_INVALID"
    /\ resp.status \in {"APP_LABEL_IS_INVALID", "MODEL_SLUG_IS_INVALID"}
       => /\ ~Resolved
          /\ expand = NoExpand
          /\ ~view.tree_data
          /\ trace = <<>>
          /\ sent = <<>>
          /\ resp.data = <<>>
          /\ loc = NoLoc
          /\ db = pre

\* A request for an unknown slug under an application that is not installed
\* was refused for its application while rows were stored.
C15_Witness ==
    /\ pc = "done"
    /\ view.app = "ghost"
    /\ view.model_slug = "nope"
    /\ view.action = "create"
    /\ resp.status = "APP_LABEL_IS_INVALID"
    /\ \E i \in Ids : db.inst[i] # Null

\* The admin's default expansion list cannot be read, or names a path
\* the model has no field for.
MalformedDetail ==
    \/ cfg.detail_expand_fields = Unreadable
    \/ /\ cfg.detail_expand_fields # NoFields
       /\ translate_expand_fields(cfg.detail_expand_fields).raised

\* C16: failures while consulting the admin configuration are swallowed.
\* Without an admin class, or with a scoping field name the model has no
\* field for, the scope filter returns the query unchanged; without an admin
\* class, or with a parent field name the model has no field for, the tree
\* descriptor is None; without an admin class, or with a default expansion
\* list that cannot be read or names no field of the model, a detail request
\* takes no expansion from it; and no read handler of such an entity type
\* ends in an error.
C16_AdminFailuresSwallowed ==
    /\ (~cfg.admin \/ cfg.auth_filter_field = "bogus")
       => \A user \in Principals :
             get_queryset_by_filter_user(objects_all(db), db, user)
                = objects_all(db)
    /\ (~cfg.admin \/ cfg.parent_field = "bogus") => ~view.tree_data
    /\ (~cfg.admin \/ MalformedDetail) => expand.source # "admin"
    /\ (pc = "done" /\ view.action \in ReadActions /\ Resolved
           /\ expand.source # "request"
           /\ (~cfg.admin \/ "bogus" \in {cfg.auth_filter_field, cfg.parent_field}
                 \/ MalformedDetail))
       => resp.status \in {"ok", "NotFound"}

\* C17: the admin configuration is read-only under request handling.  No
\* step of a request changes the AdminConfig, the in-place rewriting of
\* paths taken from the default expansion list included.
C17_AdminConfigReadOnly == [][cfg' = cfg]_vars

\* A detail request took its paths from the admin's default list and
\* get_queryset() rewrote a reverse-relation segment of them.
C17_Witness ==
    /\ view.action = "retrieve"
    /\ expand.source = "admin"
    /\ expand.calls >= 1
    /\ expand.fields # cfg.detail_expand_fields
    /\ expand.prefetch = expand.fields

\* C18: every stage of the query builder is a no-op on absent or empty
\* input.  Whenever list or list-via-POST has answered, it has answered ok,
\* and on the query over all stored rows, on the principal's scoped query
\* and on its reverse the filter stage returns its input for absent and for
\* empty conditions, the ordering stage for absent, empty and non-list order
\* fields, the tree stage for a None descriptor, and so does the chain of
\* the three.
C18_StagesNoOpOnEmptyInput ==
    (pc = "done" /\ view.action \in {"list", "set"} /\ Resolved)
    => /\ resp.status = "ok"
       /\ LET scoped == get_queryset_by_filter_user(objects_all(db), db, view.user)
          IN  \A queryset \in {objects_all(db), scoped, Reverse(scoped)} :
                /\ \A fc \in {"absent", "empty"} :
                      get_queryset_by_filter_conditions(queryset, db, fc) = queryset
                /\ \A ob \in {"absent", "empty", "notlist"} :
                      get_queryset_by_order_by(queryset, ob) = queryset
                /\ get_queryset_by_with_tree(queryset, db, FALSE) = queryset
                /\ _get_queryset(queryset, db, "root", "absent", "absent", FALSE)
                      = queryset

\* A list without tree descriptor returned every stored row, one of which
\* does not hold the tree's root value.
C18_Witness ==
    /\ pc = "done"
    /\ view.action = "list"
    /\ view.user = "root"
    /\ ~view.tree_data
    /\ resp.data = objects_all(db)
    /\ \E i \in RowSet(resp.data) : ~db.inst[i].root

\* C19: the scope filter honours the enable flag.  With the
\* filter-by-login-user flag of the AdminConfig disabled, the scope filter
\* returns the query unchanged for every principal.
C19_DisabledFlagLeavesQueryUnchanged ==
    ~cfg.filter_by_login_user
    => \A user \in Principals :
          get_queryset_by_filter_user(objects_all(db), db, user)
             = objects_all(db)

\* C20: one notification per successful write.  A create that answers ok
\* has sent exactly one signal, which carries the created instance and
\* create = True, an update or partial update exactly one, which carries
\* the updated instance and create = False; the signal is out before the
\* response is made; list, list-via-POST, detail, destroy, batch and export
\* send none.
C20_OneNotificationPerWrite ==
    /\ (pc = "done" /\ resp.status = "ok" /\ view.action = "create")
       => /\ sent = << [instance |-> loc.instance, create |-> TRUE,
                        raised |-> FALSE] >>
          /\ loc.instance \in Ids
    /\ (pc = "done" /\ resp.status = "ok" /\ view.action \in UpdateActions)
       => sent = << [instance |-> view.pk, create |-> FALSE,
                     raised |-> FALSE] >>
    /\ pc \in {"c_respond", "u_respond"}
       => (Len(sent) = 1 /\ ~sent[1].raised /\ Has(trace, "notify"))
    /\ view.action \in {"list", "set", "retrieve", "destroy", "batch",
                        "export_file"}
       => sent = <<>>

====
